---- MODULE Spec2Model ----
(***************************************************************************)
(* Model of src/src/run_autogen_review.py: the per-commit review pipeline. *)
(*                                                                         *)
(* main() validates the environment, asks the diff provider for the        *)
(* changed files, and walks the list in order.  Every file gets a header   *)
(* in full_report_text, then the size/empty/unreadable gate, then the      *)
(* dispatch turn (Code_Checker, which may call one of the four registered  *)
(* analyzer runners), then the review turn (Code_Reviewer) when the        *)
(* extension is a key of language_map, then the footer and the pacing      *)
(* sleep.  After the loop the report is rendered and mailed.               *)
(*                                                                         *)
(* The collaborators outside the file (GitHub, the file system, the        *)
(* subprocesses, the language model, FPDF, SMTP) are inputs: every action  *)
(* draws their answer from a small set.  One loop iteration is one action. *)
(*                                                                         *)
(* A path is <<directory, stem, suffix>>.  A text is a sequence of string  *)
(* fragments, the first being its literal prefix in the source.  The       *)
(* report is the sequence of the blocks appended to full_report_text.      *)
(***************************************************************************)
EXTENDS Integers, Sequences, FiniteSets, TLC

VARIABLES
    environ,           \* the required environment variables that are set
    pc,                \* position of main(): validate, diff, loop, report, done, exit
    exit_code,         \* -1 while running, else the process exit code
    changed_files,     \* the list get_changed_files returned
    disk,              \* what the file system holds for each changed file
    idx,               \* 1-based position of the for loop in changed_files
    full_report_text,  \* the blocks appended to the report so far
    processed_count,   \* main's counter of files that reached the end of the loop body
    sleeps,            \* positions after which time.sleep(5) was executed
    calls,             \* log of the external invocations made so far
    pdf,               \* outcome of create_pdf: none, created, failed
    email,             \* outcome of send_email: none, sent, skipped, attach_failed, failed
    deviations         \* number of non-nominal collaborator answers so far

vars == <<environ, pc, exit_code, changed_files, disk, idx, full_report_text,
          processed_count, sleeps, calls, pdf, email, deviations>>

-----------------------------------------------------------------------------
(* Bounds of the model *)

\* longest commit file list handed out by the diff provider
MaxFiles == 3

\* most non-nominal answers (disk faults, analyzer faults, reviewer faults,
\* delivery faults) the collaborators give in one run
MaxDeviations == 1

-----------------------------------------------------------------------------
(* Program constants *)

\* line 34: MAX_FILE_SIZE = 1024 * 1024
MAX_FILE_SIZE == 1048576

\* line 411: processed_count % 2
PACE_EVERY == 2

\* lines 255-261: required_vars
RequiredVars ==
    {"OPENAI_API_KEY", "GITHUB_TOKEN", "GITHUB_REPOSITORY", "GITHUB_SHA", "GITHUB_ACTOR"}

\* lines 346-350: language_map
language_map ==
    [e \in {".py", ".js", ".jsx", ".ts", ".tsx", ".css", ".scss", ".html"} |->
        CASE e = ".py" -> "Python"
          [] e = ".js" -> "JavaScript"
          [] e = ".jsx" -> "React (JSX)"
          [] e = ".ts" -> "TypeScript"
          [] e = ".tsx" -> "React (TSX)"
          [] e = ".css" -> "CSS"
          [] e = ".scss" -> "SCSS"
          [] e = ".html" -> "HTML"]

\* lines 329-334: the names registered in function_map
ToolNames == {"run_flake8", "run_eslint", "run_stylelint", "run_html_validate"}

-----------------------------------------------------------------------------
(* Paths *)

A_PY == <<"", "a", ".py">>
APP_JS == <<"", "app", ".js">>
STYLE_CSS == <<"", "style", ".css">>
INDEX_HTML == <<"", "index", ".html">>
EMPTY_TXT == <<"", "empty", ".txt">>
VENDORED_JS == <<"node_modules/", "lib", ".js">>

\* the files a commit of the modelled repository can touch
CommitPaths == {A_PY, APP_JS, STYLE_CSS, EMPTY_TXT, VENDORED_JS}

\* os.path.splitext(file_path)[1]: the suffix after the last dot of the base
\* name; a base name that is only a leading-dot word has no extension
splitext(file_path) ==
    IF file_path[2] = "" THEN "" ELSE file_path[3]

\* str.endswith with a tuple of suffixes
endswith(file_path, suffixes) == file_path[3] \in suffixes

\* line 64 and 67: any(pattern in file.filename for pattern in excluded_patterns)
IsExcluded(file_path) ==
    \/ file_path[1] \in {"node_modules/", ".github/"}
    \/ <<file_path[2], file_path[3]>> \in {<<"package-lock", ".json">>, <<"yarn", ".lock">>}

RECURSIVE FilterExcluded(_)
\* lines 63-71: the loop over commit.files
FilterExcluded(files) ==
    IF files = <<>> THEN <<>>
    ELSE IF IsExcluded(Head(files)) THEN FilterExcluded(Tail(files))
    ELSE <<Head(files)>> \o FilterExcluded(Tail(files))

\* lines 58-74: get_changed_files; api_ok = FALSE is any exception of the client
get_changed_files(commit_files, api_ok) ==
    IF api_ok THEN FilterExcluded(commit_files) ELSE <<>>

-----------------------------------------------------------------------------
(* The file system *)

\* what os.path.getsize and open/read give for one file:
\*   stat  "ok" or "OSError" (getsize raises)
\*   size  the size getsize returns
\*   open  "ok" or "error" (open or read raises: missing, no permission, not UTF-8)
\*   blank the content is empty or whitespace only
Normal == [stat |-> "ok", size |-> 120, open |-> "ok", blank |-> FALSE]
AtLimit == [stat |-> "ok", size |-> MAX_FILE_SIZE, open |-> "ok", blank |-> FALSE]
Oversize == [stat |-> "ok", size |-> MAX_FILE_SIZE + 1, open |-> "ok", blank |-> FALSE]
Whitespace == [stat |-> "ok", size |-> 3, open |-> "ok", blank |-> TRUE]
Vanished == [stat |-> "OSError", size |-> 0, open |-> "error", blank |-> FALSE]
Locked == [stat |-> "ok", size |-> 120, open |-> "error", blank |-> FALSE]

DiskStates == {Normal, AtLimit, Oversize, Whitespace, Vanished, Locked}

\* the size test off by one byte
TooLargeOffByOne(size) == size > MAX_FILE_SIZE + 1

\* line 363: os.path.getsize(file_path) > MAX_FILE_SIZE
TooLarge(size) == size > MAX_FILE_SIZE

\* lines 361-381: the gate; "pass" or the text recorded before `continue`
Gate(d) ==
    IF d.stat = "ok" /\ TooLarge(d.size) THEN "File too large. Skipped."
    ELSE IF d.open # "ok" THEN "Error: Could not read file."
    ELSE IF d.blank THEN "File is empty. Skipped."
    ELSE "pass"

-----------------------------------------------------------------------------
(* The analyzer runners *)

\* what subprocess.run does once it is called:
\*   stdout            the process ends and printed findings
\*   empty             the process ends with exit code 0 and printed nothing
\*   nonzero_empty     the process ends with a non-zero exit code and printed
\*                     nothing on stdout (npx found no such package)
\*   TimeoutExpired, FileNotFoundError, OSError   the exception raised
ProcOutcomes ==
    {"stdout", "empty", "nonzero_empty", "TimeoutExpired", "FileNotFoundError", "OSError"}

\* str(error) of the exception caught by `except Exception as error`
ErrorString(proc, program) ==
    IF proc = "FileNotFoundError"
    THEN <<"[Errno 2] No such file or directory: ", program>>
    ELSE <<"[Errno 13] Permission denied: ", program>>

\* result.stdout or 'No issues found.'
StdoutOrNoIssues(proc) ==
    IF proc = "stdout" THEN "<stdout>" ELSE "No issues found."

\* a runner's answer: the returned text, whether subprocess.run was called,
\* and whether the call raised instead of returning
Returned(text, spawned) == [ret |-> text, spawned |-> spawned, raises |-> FALSE]

\* lines 76-102
run_flake8(file_path, proc) ==
    IF ~endswith(file_path, {".py"})
    THEN Returned(<<"Error: ", "run_flake8 can only be used on .py files.">>, FALSE)
    ELSE CASE proc \in {"stdout", "empty", "nonzero_empty"} ->
                Returned(<<"Flake8 (Python) findings:", StdoutOrNoIssues(proc)>>, TRUE)
           [] proc = "TimeoutExpired" ->
                Returned(<<"Error: ", "Flake8 timed out.">>, TRUE)
           [] proc = "FileNotFoundError" ->
                Returned(<<"Error: ", "Flake8 not installed.">>, TRUE)
           [] OTHER ->
                Returned(<<"Error running flake8: ">> \o ErrorString(proc, "flake8"), TRUE)

\* run_eslint without its suffix test
run_eslint_unguarded(file_path, proc) ==
    CASE proc \in {"stdout", "empty", "nonzero_empty"} ->
            Returned(<<"ESLint (JS/TS/React) findings:", StdoutOrNoIssues(proc)>>, TRUE)
      [] proc = "TimeoutExpired" ->
            Returned(<<"Error: ", "ESLint timed out.">>, TRUE)
      [] OTHER ->
            Returned(<<"Error running eslint: ">> \o ErrorString(proc, "npx"), TRUE)

\* lines 104-128
run_eslint(file_path, proc) ==
    IF ~endswith(file_path, {".js", ".jsx", ".ts", ".tsx"})
    THEN Returned(<<"Error: ", "run_eslint is for .js, .jsx, .ts, or .tsx files.">>, FALSE)
    ELSE CASE proc \in {"stdout", "empty", "nonzero_empty"} ->
                Returned(<<"ESLint (JS/TS/React) findings:", StdoutOrNoIssues(proc)>>, TRUE)
           [] proc = "TimeoutExpired" ->
                Returned(<<"Error: ", "ESLint timed out.">>, TRUE)
           [] OTHER ->
                Returned(<<"Error running eslint: ">> \o ErrorString(proc, "npx"), TRUE)

\* lines 130-154
run_stylelint(file_path, proc) ==
    IF ~endswith(file_path, {".css", ".scss"})
    THEN Returned(<<"Error: ", "run_stylelint is for .css or .scss files.">>, FALSE)
    ELSE CASE proc \in {"stdout", "empty", "nonzero_empty"} ->
                Returned(<<"Stylelint (CSS/SCSS) findings:", StdoutOrNoIssues(proc)>>, TRUE)
           [] proc = "TimeoutExpired" ->
                Returned(<<"Error: ", "Stylelint timed out.">>, TRUE)
           [] OTHER ->
                Returned(<<"Error running stylelint: ">> \o ErrorString(proc, "npx"), TRUE)

\* lines 156-180
run_html_validate(file_path, proc) ==
    IF ~endswith(file_path, {".html"})
    THEN Returned(<<"Error: ", "run_html_validate is for .html files.">>, FALSE)
    ELSE CASE proc \in {"stdout", "empty", "nonzero_empty"} ->
                Returned(<<"html-validate (HTML) findings:", StdoutOrNoIssues(proc)>>, TRUE)
           [] proc = "TimeoutExpired" ->
                Returned(<<"Error: ", "HTML validation timed out.">>, TRUE)
           [] OTHER ->
                Returned(<<"Error running html-validate: ">> \o ErrorString(proc, "npx"), TRUE)

\* lines 328-335: the call user_proxy makes through function_map
function_map(tool, file_path, proc) ==
    CASE tool = "run_flake8" -> run_flake8(file_path, proc)
      [] tool = "run_eslint" -> run_eslint(file_path, proc)
      [] tool = "run_stylelint" -> run_stylelint(file_path, proc)
      [] tool = "run_html_validate" -> run_html_validate(file_path, proc)

\* lines 292-296: the menu of the dispatcher prompt: the runner for a suffix
Menu(file_path) ==
    {t \in ToolNames : function_map(t, file_path, "stdout").spawned}

-----------------------------------------------------------------------------
(* The two turns *)

\* line 298: the reply the dispatcher prompt asks for when no tool matches
NoLinterSentinel == <<"No linter available for this file type.">>

\* what Code_Checker does first in one dispatch turn: the chat raises, or it
\* answers without a tool (with the sentinel or with other words), or it
\* calls one registered runner on the path named in lint_task
\* (max_consecutive_auto_reply = 1: at most one call)
DispatchChoices == {"raise", "sentinel", "other"} \cup ToolNames

\* what happens after a runner has returned: Code_Checker's closing message
\* carries what the runner returned, or the request for it raises
ClosingChoices == {"reply", "raise"}

\* what Code_Reviewer does in one review turn
ReviewChoices == {"text", "raise"}

\* one entry of the log of external invocations
Call(op, file_path, tool, detail) ==
    [op |-> op, file |-> file_path, tool |-> tool, detail |-> detail]

\* lines 328-335: user_proxy runs the requested function: the subprocess it
\* starts, if any, then the call itself with the text handed back
ExecuteFunction(tool, file_path, proc) ==
    LET r == function_map(tool, file_path, proc) IN
    (IF r.spawned THEN <<Call("subprocess", file_path, tool, <<proc>>)>> ELSE <<>>)
    \o <<Call("tool", file_path, tool, IF r.raises THEN <<"raise">> ELSE r.ret)>>

\* lines 385-387: initiate_chat(code_checker, ...) and last_message(...)["content"]
\*   raised   the chat raised
\*   content  linter_report
\*   made     the invocations, in order
DispatchTurn(file_path, llm, proc, closing) ==
    CASE llm = "raise" ->
            [raised |-> TRUE, content |-> <<>>,
             made |-> <<Call("dispatch", file_path, "", <<"raise">>)>>]
      [] llm = "sentinel" ->
            [raised |-> FALSE, content |-> NoLinterSentinel,
             made |-> <<Call("dispatch", file_path, "", <<"reply">>)>>]
      [] llm = "other" ->
            [raised |-> FALSE, content |-> <<"<free text>">>,
             made |-> <<Call("dispatch", file_path, "", <<"reply">>)>>]
      [] OTHER ->
            [raised |-> closing = "raise",
             content |-> IF closing = "raise"
                         THEN <<>>
                         ELSE function_map(llm, file_path, proc).ret,
             made |-> <<Call("dispatch", file_path, "", <<closing>>)>>
                      \o ExecuteFunction(llm, file_path, proc)]

\* line 359: language_map.get(file_extension, f"Unknown ({file_extension})")
Language(file_extension) ==
    IF file_extension \in DOMAIN language_map
    THEN <<language_map[file_extension]>>
    ELSE <<"Unknown (", file_extension, ")">>

\* the review turn run for Python files only
NeedsReviewPythonOnly(file_extension) == file_extension = ".py"

\* line 394: if file_extension in language_map
NeedsReview(file_extension) == file_extension \in DOMAIN language_map

\* lines 395-401: the review turn
ReviewTurn(file_path, language, rev) ==
    [raised |-> rev = "raise",
     content |-> IF rev = "raise" THEN <<>> ELSE <<"<review of>">> \o language,
     made |-> <<Call("review", file_path, "", <<IF rev = "raise" THEN "raise" ELSE "reply">>)>>]

-----------------------------------------------------------------------------
(* The report *)

Block(tag, file_path, text) == [tag |-> tag, file |-> file_path, text |-> text]

\* the header put in front of the report instead of at its end
OpenSectionPrepended(text, file_path) ==
    <<Block("header", file_path, <<"--- Report for ">>)>> \o text

\* line 356: full_report_text += f"--- Report for {file_path} ---\n\n"
OpenSection(text, file_path) ==
    Append(text, Block("header", file_path, <<"--- Report for ">>))

\* lines 365, 376, 380: the text recorded by the gate before `continue`
SkipSection(text, file_path, reason) ==
    Append(text, Block("skip", file_path, <<reason>>))

\* the handler of a failed dispatch turn recording nothing
LinterSectionDropError(text, file_path, language, turn) ==
    IF turn.raised
    THEN text
    ELSE Append(text, Block("linter", file_path,
                            <<"**Linter Check (">> \o language \o <<"):**">> \o turn.content))

\* lines 388 and 391
LinterSection(text, file_path, language, turn) ==
    Append(text,
           IF turn.raised
           THEN Block("linter", file_path, <<"**Linter Check:** Error occurred">>)
           ELSE Block("linter", file_path,
                      <<"**Linter Check (">> \o language \o <<"):**">> \o turn.content))

\* lines 402 and 405
ReviewSection(text, file_path, turn) ==
    Append(text,
           IF turn.raised
           THEN Block("review", file_path, <<"**Review:** Error occurred">>)
           ELSE Block("review", file_path, <<"**Review:**">> \o turn.content))

\* line 407: full_report_text += f"--- End of Report for {file_path} ---\n\n"
CloseSection(text, file_path) ==
    Append(text, Block("footer", file_path, <<"--- End of Report for ">>))

\* line 411: processed_count % 2 == 0 and processed_count < len(changed_files)
RateLimitDelay(count, total) ==
    count % PACE_EVERY = 0 /\ count < total

\* the empty-list test never taken
NoFilesChangedNever(files) == FALSE

\* line 341: if not changed_files
NoFilesChanged(files) == files = <<>>

-----------------------------------------------------------------------------
(* Inputs *)

RECURSIVE SeqsUpTo(_, _)
\* the sequences without repetition over S of length at most n
SeqsUpTo(S, n) ==
    IF n = 0 THEN {<<>>}
    ELSE LET shorter == SeqsUpTo(S, n - 1) IN
         shorter \cup {Append(q, x) : q \in shorter, x \in S}

Range(q) == {q[i] : i \in 1..Len(q)}

\* the file lists a commit can carry: no file name twice
CommitLists ==
    {q \in SeqsUpTo(CommitPaths, MaxFiles) : Cardinality(Range(q)) = Len(q)}

\* the working trees for a file list, with their number of non-nominal files
Faulty(dk) == Cardinality({f \in DOMAIN dk : dk[f] # Normal})

WorkingTrees(files) ==
    {dk \in [Range(files) -> DiskStates] : Faulty(dk) <= MaxDeviations}

\* the answer the dispatcher prompt asks for: the runner of the menu, or the sentinel
Prompted(file_path) ==
    IF Menu(file_path) = {} THEN {"sentinel"} ELSE Menu(file_path)

\* the number of non-nominal answers among those drawn for one file
Cost(file_path, llm, proc, closing, rev) ==
    (IF llm \in Prompted(file_path) THEN 0 ELSE 1)
    + (IF proc = "stdout" THEN 0 ELSE 1)
    + (IF closing = "reply" THEN 0 ELSE 1)
    + (IF rev = "text" THEN 0 ELSE 1)

-----------------------------------------------------------------------------
(* State machine *)

NoPath == <<"", "", "">>

Init ==
    /\ environ \in SUBSET RequiredVars
    /\ pc = "validate"
    /\ exit_code = -1
    /\ changed_files = <<>>
    /\ disk = <<>>
    /\ idx = 0
    /\ full_report_text = <<>>
    /\ processed_count = 0
    /\ sleeps = {}
    /\ calls = <<>>
    /\ pdf = "none"
    /\ email = "none"
    /\ deviations = 0

\* lines 248-268 and 273-274: validate_environment, sys.exit(1)
ValidateEnvironment ==
    /\ pc = "validate"
    /\ IF RequiredVars \ environ # {}
       THEN pc' = "exit" /\ exit_code' = 1
       ELSE pc' = "diff" /\ exit_code' = exit_code
    /\ UNCHANGED <<environ, changed_files, disk, idx, full_report_text,
                   processed_count, sleeps, calls, pdf, email, deviations>>

\* lines 339-353: get_changed_files, the empty-list exit, the report title
GetChangedFiles ==
    /\ pc = "diff"
    /\ \E commit_files \in CommitLists, api_ok \in BOOLEAN :
         LET files == get_changed_files(commit_files, api_ok) IN
         \E dk \in WorkingTrees(files) :
            /\ changed_files' = files
            /\ disk' = dk
            /\ deviations' = Faulty(dk)
            /\ IF NoFilesChanged(files)
               THEN /\ pc' = "exit"
                    /\ exit_code' = 0
                    /\ UNCHANGED <<idx, full_report_text>>
               ELSE /\ pc' = "loop"
                    /\ idx' = 1
                    /\ full_report_text' =
                         <<Block("title", NoPath, <<"AutoGen Code Review for commit ">>)>>
                    /\ UNCHANGED exit_code
    /\ UNCHANGED <<environ, processed_count, sleeps, calls, pdf, email>>

\* lines 354-381: one iteration that ends in one of the three `continue`s
SkipFile ==
    /\ pc = "loop"
    /\ idx <= Len(changed_files)
    /\ LET file_path == changed_files[idx]
           reason == Gate(disk[file_path]) IN
       /\ reason # "pass"
       /\ full_report_text' =
            SkipSection(OpenSection(full_report_text, file_path), file_path, reason)
    /\ idx' = idx + 1
    /\ UNCHANGED <<environ, pc, exit_code, changed_files, disk, processed_count,
                   sleeps, calls, pdf, email, deviations>>

\* lines 354-413: one iteration that passes the gate
AnalyzeFile ==
    /\ pc = "loop"
    /\ idx <= Len(changed_files)
    /\ LET file_path == changed_files[idx]
           file_extension == splitext(file_path)
           language == Language(file_extension) IN
       /\ Gate(disk[file_path]) = "pass"
       /\ \E llm \in DispatchChoices, proc \in ProcOutcomes,
             closing \in ClosingChoices, rev \in ReviewChoices :
            /\ proc # "stdout" => llm \in Menu(file_path)
            /\ closing # "reply" => llm \in ToolNames
            /\ rev # "text" => NeedsReview(file_extension)
            /\ deviations + Cost(file_path, llm, proc, closing, rev) <= MaxDeviations
            /\ deviations' = deviations + Cost(file_path, llm, proc, closing, rev)
            /\ LET lint == DispatchTurn(file_path, llm, proc, closing)
                   linted == LinterSection(OpenSection(full_report_text, file_path),
                                           file_path, language, lint) IN
               IF NeedsReview(file_extension)
               THEN LET review == ReviewTurn(file_path, language, rev) IN
                    /\ full_report_text' =
                         CloseSection(ReviewSection(linted, file_path, review), file_path)
                    /\ calls' = calls \o lint.made \o review.made
               ELSE /\ full_report_text' = CloseSection(linted, file_path)
                    /\ calls' = calls \o lint.made
    /\ processed_count' = processed_count + 1
    /\ sleeps' = IF RateLimitDelay(processed_count', Len(changed_files))
                 THEN sleeps \cup {idx}
                 ELSE sleeps
    /\ idx' = idx + 1
    /\ UNCHANGED <<environ, pc, exit_code, changed_files, disk, pdf, email>>

\* lines 415-425: create_pdf and send_email after the loop
\*   pdf_ok     FPDF rendered and wrote report.pdf
\*   creds      GMAIL_USER and GMAIL_APP_PASSWORD are set
\*   smtp_ok    the SMTP session succeeded
GenerateReport ==
    /\ pc = "loop"
    /\ idx > Len(changed_files)
    /\ \E pdf_ok \in BOOLEAN, creds \in BOOLEAN, smtp_ok \in BOOLEAN :
         LET cost == IF pdf_ok /\ creds /\ smtp_ok THEN 0 ELSE 1 IN
         /\ deviations + cost <= MaxDeviations
         /\ deviations' = deviations + cost
         /\ pdf' = IF pdf_ok THEN "created" ELSE "failed"
         /\ email' = IF ~creds THEN "skipped"
                     ELSE IF ~pdf_ok THEN "attach_failed"
                     ELSE IF ~smtp_ok THEN "failed"
                     ELSE "sent"
    /\ pc' = "done"
    /\ exit_code' = 0
    /\ UNCHANGED <<environ, changed_files, disk, idx, full_report_text,
                   processed_count, sleeps, calls>>

Next ==
    \/ ValidateEnvironment
    \/ GetChangedFiles
    \/ SkipFile
    \/ AnalyzeFile
    \/ GenerateReport

Spec == Init /\ [][Next]_vars

-----------------------------------------------------------------------------
(* The runners on their own: one call of one registered runner on one path *)

DOT_PY == <<"", "", ".py">>
VIEW_TSX == <<"src/", "view", ".tsx">>
CARD_JSX == <<"src/", "card", ".jsx">>
API_TS == <<"src/", "api", ".ts">>
THEME_SCSS == <<"", "theme", ".scss">>
README == <<"", "README", "">>
CACHE_PYC == <<"", "a", ".pyc">>

\* the paths a runner can be handed
RunnerPaths ==
    CommitPaths \cup {INDEX_HTML, DOT_PY, VIEW_TSX, CARD_JSX, API_TS, THEME_SCSS,
                      README, CACHE_PYC}

InitRunners ==
    /\ environ = RequiredVars
    /\ pc = "call"
    /\ exit_code = -1
    /\ changed_files \in {<<f>> : f \in RunnerPaths}
    /\ disk = [f \in Range(changed_files) |-> Normal]
    /\ idx = 1
    /\ full_report_text = <<>>
    /\ processed_count = 0
    /\ sleeps = {}
    /\ calls = <<>>
    /\ pdf = "none"
    /\ email = "none"
    /\ deviations = 0

\* lines 76-180 through lines 328-335: one registered runner is called
CallRunner ==
    /\ pc = "call"
    /\ \E tool \in ToolNames, proc \in ProcOutcomes :
         /\ proc # "stdout" => function_map(tool, changed_files[1], proc).spawned
         /\ calls' = ExecuteFunction(tool, changed_files[1], proc)
    /\ pc' = "returned"
    /\ UNCHANGED <<environ, exit_code, changed_files, disk, idx, full_report_text,
                   processed_count, sleeps, pdf, email, deviations>>

NextRunners == CallRunner

SpecRunners == InitRunners /\ [][NextRunners]_vars

-----------------------------------------------------------------------------
(* Vocabulary of the properties *)

\* positions of changed_files whose loop iteration has ended
Handled == IF pc \in {"loop", "done"} THEN 1..(idx - 1) ELSE {}

\* the files named by the headers of a report, in report order
HeaderFiles(text) ==
    LET h == SelectSeq(text, LAMBDA b : b.tag = "header") IN
    [i \in 1..Len(h) |-> h[i].file]

\* the blocks the report holds for one file, in report order
BlocksOf(file_path) == SelectSeq(full_report_text, LAMBDA b : b.file = file_path)

TagsOf(file_path) ==
    LET b == BlocksOf(file_path) IN [i \in 1..Len(b) |-> b[i].tag]

\* the block of one tag in the section of one file (the section has at most one)
BlockOf(file_path, tag) ==
    CHOOSE b \in Range(BlocksOf(file_path)) : b.tag = tag

HasBlock(file_path, tag) == \E b \in Range(BlocksOf(file_path)) : b.tag = tag

\* the logged invocations of one kind that name one file
CallsOf(file_path, op) == {c \in Range(calls) : c.file = file_path /\ c.op = op}

\* a text of the Error kind: its literal prefix starts with "Error"
IsErrorText(text) ==
    /\ text # <<>>
    /\ text[1] \in {"Error: ", "Error running flake8: ", "Error running eslint: ",
                    "Error running stylelint: ", "Error running html-validate: "}

\* the files of the list that are skipped before the loop body ends
SkippedPositions(n) == {i \in 1..n : Gate(disk[changed_files[i]]) # "pass"}

-----------------------------------------------------------------------------
(* C1 *)

\* C1: the report holds exactly one section per file of the changed-file
\* list, skipped and failed files included, in the order of the list: while
\* the loop runs the headers are the files handled so far, in order, and once
\* the loop has ended they are the whole list.
C1_SectionsFollowInputOrder ==
    /\ pc \in {"loop", "done"} =>
         HeaderFiles(full_report_text) = SubSeq(changed_files, 1, idx - 1)
    /\ pc = "done" => HeaderFiles(full_report_text) = changed_files

\* a finished run over three files, one of them skipped by the gate
C1_Witness ==
    /\ pc = "done"
    /\ Len(changed_files) = 3
    /\ SkippedPositions(3) # {}
    /\ HeaderFiles(full_report_text) = changed_files

-----------------------------------------------------------------------------
(* C2 *)

\* the number of the first i files that reached the end of the loop body
ProcessedUpTo(i) == i - Cardinality(SkippedPositions(i))

\* C2: the pacing delay is inserted after every second processed file and
\* never after the last file of the list, also in lists where the gate skips
\* some files.
C2_DelayEverySecondNeverAfterLast ==
    pc \in {"loop", "done"} =>
        sleeps = {i \in Handled : /\ i \notin SkippedPositions(i)
                                  /\ ProcessedUpTo(i) % 2 = 0
                                  /\ i < Len(changed_files)}

-----------------------------------------------------------------------------
(* C3 *)

\* the reason the claim expects for a file stopped by the gate
C3_Reason(d) ==
    IF d.stat = "ok" /\ d.size > 1048576 THEN "File too large. Skipped."
    ELSE IF d.open # "ok" THEN "Error: Could not read file."
    ELSE "File is empty. Skipped."

C3_Stopped(d) ==
    \/ d.stat = "ok" /\ d.size > 1048576
    \/ d.open # "ok"
    \/ d.blank

\* C3: a file that is too large (more than 1 MiB), empty or whitespace-only,
\* or unreadable gets a section that holds its header and one skip reason,
\* different for each of the three cases; no dispatch turn, analyzer
\* subprocess, runner call or review turn names it; and the run goes on:
\* it never exits with an error because of it.
C3_GateSkipsWithoutCalls ==
    /\ \A i \in Handled :
         LET f == changed_files[i] IN
         C3_Stopped(disk[f]) =>
            /\ TagsOf(f) = <<"header", "skip">>
            /\ BlockOf(f, "skip").text = <<C3_Reason(disk[f])>>
            /\ \A c \in Range(calls) : c.file # f
    /\ Cardinality({C3_Reason(Oversize), C3_Reason(Whitespace), C3_Reason(Vanished)}) = 3
    /\ C3_Reason(Locked) = C3_Reason(Vanished)
    /\ pc = "exit" => changed_files = <<>>
    /\ (\E f \in DOMAIN disk : C3_Stopped(disk[f])) => exit_code # 1

\* a finished run whose first file vanished before it was read and whose
\* later files were analyzed
C3_Witness ==
    /\ pc = "done"
    /\ Len(changed_files) = 3
    /\ disk[changed_files[1]] = Vanished
    /\ CallsOf(changed_files[3], "dispatch") # {}

-----------------------------------------------------------------------------
(* C10 *)

\* C10: when an iteration of the loop has ended, every header of the report
\* is followed, before the next header, by the footer of the same file;
\* files skipped by the gate included.
C10_EveryHeaderHasItsFooter ==
    pc \in {"loop", "done"} =>
        \A k \in 1..Len(full_report_text) :
            full_report_text[k].tag = "header" =>
                \E j \in (k + 1)..Len(full_report_text) :
                    /\ full_report_text[j].tag = "footer"
                    /\ full_report_text[j].file = full_report_text[k].file
                    /\ \A m \in (k + 1)..(j - 1) : full_report_text[m].tag # "header"

-----------------------------------------------------------------------------
(* C4 *)

\* the suffixes the four analyzers are declared for
AnalyzerSuffixes == {".py", ".js", ".jsx", ".ts", ".tsx", ".css", ".scss", ".html"}

\* linter_report as recorded in the section of a file: the linter block
\* without its label
LinterContent(file_path) ==
    LET t == BlockOf(file_path, "linter").text
        n == Len(Language(splitext(file_path))) + 2 IN
    SubSeq(t, n + 1, Len(t))

\* C4: a file that passes the gate and whose extension matches no analyzer
\* has the "no linter available" sentinel as its recorded analysis, and no
\* external process is started for it, whatever the dispatch turn does.
C4_UnknownTypeRecordsSentinel ==
    \A i \in Handled :
        LET f == changed_files[i] IN
        (~C3_Stopped(disk[f]) /\ splitext(f) \notin AnalyzerSuffixes) =>
            /\ HasBlock(f, "linter")
            /\ LinterContent(f) = <<"No linter available for this file type.">>
            /\ CallsOf(f, "subprocess") = {}

-----------------------------------------------------------------------------
(* C5 *)

\* the subprocess outcomes that are failures of the analyzer run
C5_AnalyzerFailures == {"TimeoutExpired", "FileNotFoundError", "OSError"}

C5_DispatchRaised(f) == \E c \in CallsOf(f, "dispatch") : c.detail = <<"raise">>

C5_ReviewRaised(f) == \E c \in CallsOf(f, "review") : c.detail = <<"raise">>

C5_AnalyzerFailed(f) == \E c \in CallsOf(f, "subprocess") : c.detail[1] \in C5_AnalyzerFailures

C5_Failed(f) == C5_DispatchRaised(f) \/ C5_ReviewRaised(f) \/ C5_AnalyzerFailed(f)

-----------------------------------------------------------------------------
(* C6 *)

\* what subprocess.run does when the analyzer is not installed: flake8 is the
\* program started, so the start fails; the other three are started through
\* npx, so either npx is missing and the start fails, or npx runs, finds no
\* such package and ends with an error on stderr
C6_Absent(tool) ==
    IF tool = "run_flake8"
    THEN {"FileNotFoundError"}
    ELSE {"FileNotFoundError", "nonzero_empty"}

\* an Error text that tells the analyzer is missing
C6_NotInstalledText(text) ==
    /\ IsErrorText(text)
    /\ Len(text) >= 2
    /\ text[2] \in {"Flake8 not installed.", "[Errno 2] No such file or directory: "}

C6_TimeoutTexts ==
    {<<"Error: ", "Flake8 timed out.">>, <<"Error: ", "ESLint timed out.">>,
     <<"Error: ", "Stylelint timed out.">>, <<"Error: ", "HTML validation timed out.">>}

\* C6: for each of the four analyzers, a run with the analyzer not installed
\* gives an Error outcome with a "not installed" message that differs from
\* the timeout message, and the review turn of the file is still run.
C6_AbsentAnalyzerIsReported ==
    \A c \in Range(calls) :
        (c.op = "subprocess" /\ c.detail[1] \in C6_Absent(c.tool)) =>
            /\ \A t \in CallsOf(c.file, "tool") :
                 /\ C6_NotInstalledText(t.detail)
                 /\ t.detail \notin C6_TimeoutTexts
            /\ CallsOf(c.file, "review") # {}

-----------------------------------------------------------------------------
(* C7 *)

\* the keys of the language map as the claim lists them
C7_Keys == {".py", ".js", ".jsx", ".ts", ".tsx", ".css", ".scss", ".html"}

\* the scenario: a.py with content, a valid style.css, a whitespace-only empty.txt
C7_Scenario ==
    /\ pc = "done"
    /\ changed_files = <<A_PY, STYLE_CSS, EMPTY_TXT>>
    /\ disk[A_PY] = Normal
    /\ disk[STYLE_CSS] = Normal
    /\ disk[EMPTY_TXT] = Whitespace

C7_Reviewed == {f \in Range(changed_files) : HasBlock(f, "review")}

\* the part of the claim that does not name the reviewed files of the scenario
C7_Rule ==
    /\ \A i \in Handled :
         LET f == changed_files[i] IN
         ~C3_Stopped(disk[f]) =>
            /\ CallsOf(f, "dispatch") # {}
            /\ HasBlock(f, "linter")
            /\ CallsOf(f, "review") # {} <=> splitext(f) \in C7_Keys
            /\ HasBlock(f, "review") <=> splitext(f) \in C7_Keys
    /\ C7_Scenario =>
         /\ Len(HeaderFiles(full_report_text)) = 3
         /\ TagsOf(EMPTY_TXT) = <<"header", "skip">>
         /\ BlockOf(EMPTY_TXT, "skip").text = <<"File is empty. Skipped.">>
         /\ HasBlock(A_PY, "linter")
         /\ HasBlock(STYLE_CSS, "linter")

\* C7 as stated: a file that passes the gate gets the dispatch turn, and the
\* review turn if and only if its extension is a key of the language map; in
\* the scenario [a.py, style.css, empty.txt] the report has three sections,
\* the third is the skipped-empty one, the first two hold analysis text, and
\* review text appears for a.py only.
C7_ReviewForPythonOnlyInScenario ==
    /\ C7_Rule
    /\ C7_Scenario => C7_Reviewed = {A_PY}

\* C7 as amended: the same, with review text in the scenario for a.py and
\* for style.css, both extensions being keys of the language map.
C7_ReviewIffLanguageMapped ==
    /\ C7_Rule
    /\ C7_Scenario => C7_Reviewed = {A_PY, STYLE_CSS}

\* the scenario has run to its end
C7_Witness ==
    /\ C7_Scenario
    /\ CallsOf(STYLE_CSS, "review") # {}
    /\ CallsOf(EMPTY_TXT, "dispatch") = {}

-----------------------------------------------------------------------------
(* C8 *)

\* C8: when the diff provider returns no file (nothing left after the
\* exclusions, or the provider failed), the run exits with code 0 and makes
\* no dispatch turn, no review turn, no PDF and no email.
C8_EmptyListExitsClean ==
    (environ = RequiredVars /\ pc \notin {"validate", "diff"} /\ changed_files = <<>>) =>
        /\ pc = "exit"
        /\ exit_code = 0
        /\ calls = <<>>
        /\ full_report_text = <<>>
        /\ pdf = "none"
        /\ email = "none"

\* the run has ended on an empty changed-file list
C8_Witness ==
    /\ environ = RequiredVars
    /\ pc = "exit"
    /\ changed_files = <<>>
    /\ exit_code = 0

-----------------------------------------------------------------------------
(* C9 *)

\* the suffixes each runner declares
C9_Declared(tool) ==
    CASE tool = "run_flake8" -> {".py"}
      [] tool = "run_eslint" -> {".js", ".jsx", ".ts", ".tsx"}
      [] tool = "run_stylelint" -> {".css", ".scss"}
      [] tool = "run_html_validate" -> {".html"}

C9_GuardText(tool) ==
    CASE tool = "run_flake8" -> <<"Error: ", "run_flake8 can only be used on .py files.">>
      [] tool = "run_eslint" -> <<"Error: ", "run_eslint is for .js, .jsx, .ts, or .tsx files.">>
      [] tool = "run_stylelint" -> <<"Error: ", "run_stylelint is for .css or .scss files.">>
      [] tool = "run_html_validate" -> <<"Error: ", "run_html_validate is for .html files.">>

C9_Mismatched(c) == c.op = "tool" /\ c.file[3] \notin C9_Declared(c.tool)

C9_NoSubprocess(c) ==
    \A k \in Range(calls) : ~(k.op = "subprocess" /\ k.file = c.file /\ k.tool = c.tool)

\* C9 as stated: a runner called on a file outside its declared suffixes
\* fails fast as a programming error, it does not return a normal outcome,
\* and the analyzer subprocess is not started.
C9_MismatchRaises ==
    \A c \in Range(calls) :
        C9_Mismatched(c) => (c.detail = <<"raise">> /\ C9_NoSubprocess(c))

\* C9 as amended: a runner called on a file outside its declared suffixes
\* returns at once, as an ordinary return value, the Error text that names
\* the suffixes it accepts, and the analyzer subprocess is not started.
C9_MismatchReturnsErrorText ==
    \A c \in Range(calls) :
        C9_Mismatched(c) => (c.detail = C9_GuardText(c.tool) /\ C9_NoSubprocess(c))

\* run_eslint has been called on a Python file and has returned
C9_Witness ==
    /\ pc = "returned"
    /\ \E c \in Range(calls) : C9_Mismatched(c) /\ c.tool = "run_eslint" /\ c.file = A_PY

====
